---------------------------- MODULE Spec2Model ----------------------------
(***************************************************************************)
(* A model of src/app.py, the passport photo editor.                       *)
(*                                                                         *)
(* Three specifications share the variables below:                         *)
(*   Spec        one run of the upload handler up to the return of         *)
(*               process_photo and the report of its result;               *)
(*   SpecSession the rest of the run after a successful process_photo:     *)
(*               preview with overlay, warnings, download, 4x6 sheet;      *)
(*   SpecConv    the unit converter px_to_mm / mm_to_px on its own.        *)
(*                                                                         *)
(* Numbers.  Python floats are modelled as exact rationals <<n, d>>, and   *)
(* int() and round() by what they do to the exact value (truncation        *)
(* towards zero, round-half-to-even).  Binary rounding error of a double   *)
(* is not modelled.                                                        *)
(*                                                                         *)
(* Images.  A raster is modelled by its size, what it was created from     *)
(* (base: a fill colour, or a window into a named pixel source) and the    *)
(* pastes made onto it since (layers).  Pixel(img, x, y) computes the      *)
(* pixel the way the pastes determine it; pixels of a source are symbolic  *)
(* terms "pixel (x, y) of <name>".  All rectangles are axis-aligned, so    *)
(* Pixel is, on every cell of the grid spanned by the rectangles' edges,   *)
(* either one fill colour or one translation of a source: two images that  *)
(* agree on the first and last pixel of every cell agree on every pixel.   *)
(***************************************************************************)
EXTENDS Integers, Sequences, FiniteSets, TLC

VARIABLES
    pc,             \* position in the script
    executed,       \* history: the labelled steps that have completed
    orig_image,     \* the decoded upload: [w, h]
    img_w, img_h,   \* process_photo locals (line 76)
    landmarks,      \* process_photo local (line 78)
    top, chin, eye_y, cx, cy,       \* line 82
    head_px, head_mm, scale,        \* lines 84-90
    new_w, new_h, scaled,           \* lines 93-94
    crop_top, crop_left,            \* lines 103-108
    cropped,                        \* lines 110-116
    exc,            \* the exception in flight, "" when none
    heap,           \* the PIL image objects, by reference (1 .. Len(heap))
    processed_img,  \* module-level name (line 210): a reference, or NULL
    error_msg,      \* module-level name (line 210)
    ui_error,       \* what st.error showed, "" when nothing
    returned_img,   \* history: the pixels of the image process_photo returned
    out_landmarks,  \* module-level `landmarks` (line 217)
    preview_img,    \* module-level name (line 218): a reference, or NULL
    saved,          \* what the download button wrote to its buffer
    add_border, border_thickness,   \* lines 290-293
    sheet_image,    \* create_4x6_image local `image`: a reference
    canvas,         \* create_4x6_image local: a reference
    pasted,         \* number of iterations of the loop at line 281 done
    preview_4x6,    \* module-level name (line 295)
    px_in, mm_val, px_back          \* SpecConv: argument and results

vars == << pc, executed, orig_image, img_w, img_h, landmarks, top, chin,
           eye_y, cx, cy, head_px, head_mm, scale, new_w, new_h, scaled,
           crop_top, crop_left, cropped, exc, heap, processed_img, error_msg,
           ui_error, returned_img, out_landmarks, preview_img, saved,
           add_border, border_thickness, sheet_image, canvas, pasted,
           preview_4x6, px_in, mm_val, px_back >>

frameVars == << img_w, img_h, landmarks, top, chin, eye_y, cx, cy, head_px,
                head_mm, scale, new_w, new_h, scaled, crop_top, crop_left,
                cropped >>

sessionVars == << returned_img, out_landmarks, preview_img, saved, add_border,
                  border_thickness, sheet_image, canvas, pasted, preview_4x6 >>

convVars == << px_in, mm_val, px_back >>

-----------------------------------------------------------------------------
(* Configuration, lines 12-21, and the literals of the code.               *)

OUTPUT_SIZE_PX == 600
DPI == 300
HEAD_MIN_MM == 25
HEAD_MAX_MM == 35
EYE_MIN_MM == 28
EYE_MAX_MM == 34
\* "OUTPUT_SIZE_PX pixels == 51 mm": the literal 51 of px_to_mm and mm_to_px
OUTPUT_SIZE_MM == 51
target_head_mm == 26
canvas_width == 1200
canvas_height == 1800
\* None, as the value of a name that refers to an image
NULL == 0

NoFaceMsg == "No face detected. Please use a clear, front-facing passport-style photo!"
InvalidImageMsg == "Invalid image file. Please upload a valid JPG or PNG image."
FileSizeMsg == "File size exceeds 10MB. Please upload a smaller file."

-----------------------------------------------------------------------------
(* Bounds of the model.                                                    *)

\* Landmark coordinates are k / LmDen, k in 0 .. LmDen: the grid of [0, 1]
LmDen == 3
\* SpecConv converts every pixel count in -MaxPx .. MaxPx
MaxPx == 700

\* The sizes (width, height) of the uploaded images
ImgSizes == { <<1000, 1000>>, <<503, 1001>>, <<2, 1000>> }

-----------------------------------------------------------------------------
(* Arithmetic.                                                             *)

Min(a, b) == IF a <= b THEN a ELSE b
Max(a, b) == IF a >= b THEN a ELSE b
Abs(a) == IF a >= 0 THEN a ELSE -a

\* int(n / d): truncation towards zero, d # 0
TruncDiv(n, d) ==
    LET nn == IF d < 0 THEN -n ELSE n
        dd == Abs(d)
    IN  IF nn >= 0 THEN nn \div dd ELSE -((-nn) \div dd)

\* round(n / d), Python 3: to the nearest integer, a tie to the even one; d > 0
RoundHalfEven(n, d) ==
    LET q == n \div d
        r == n - q * d
    IN  IF 2 * r < d THEN q
        ELSE IF 2 * r > d THEN q + 1
        ELSE IF q % 2 = 0 THEN q ELSE q + 1

-----------------------------------------------------------------------------
(* Conversion between px and mm, lines 55-60.                              *)

\* a faulty variant: the calibration taken from the inch (2 in = 50.8 mm = 254/5 mm)
px_to_mm_inch(px) == << px * 254, OUTPUT_SIZE_PX * 5 >>

\* (px / OUTPUT_SIZE_PX) * 51, as a rational
px_to_mm(px) == << px * OUTPUT_SIZE_MM, OUTPUT_SIZE_PX >>

\* int(round((mm / 51) * OUTPUT_SIZE_PX)), mm a rational with mm[2] > 0
mm_to_px(mm) == RoundHalfEven(mm[1] * OUTPUT_SIZE_PX, mm[2] * OUTPUT_SIZE_MM)

-----------------------------------------------------------------------------
(* Landmarks and geometry, lines 27-49.                                    *)

\* The oracle's answer: the coordinates the code reads (landmarks 10, 152,
\* 33, 263), as numerators over den; found = FALSE is the answer None.
Lm(d, a, b, lx, ly, rx, ry) ==
    [ found |-> TRUE, den |-> d, y10 |-> a, y152 |-> b,
      x33 |-> lx, y33 |-> ly, x263 |-> rx, y263 |-> ry ]

NoLandmarks ==
    [ found |-> FALSE, den |-> 1, y10 |-> 0, y152 |-> 0,
      x33 |-> 0, y33 |-> 0, x263 |-> 0, y263 |-> 0 ]

LandmarkSets(d) ==
    { Lm(d, a, b, lx, ly, rx, ry) :
        a \in 0..d, b \in 0..d, lx \in 0..d, ly \in 0..d, rx \in 0..d, ry \in 0..d }

\* detect_face_landmarks: None, or the landmarks of one face
detect_face_landmarks == { NoLandmarks } \cup LandmarkSets(LmDen)

\* a faulty variant: every value rounded to the nearest integer instead of truncated
get_positions_rounded(lm, w, h) ==
    LET t == RoundHalfEven(lm.y10 * h, lm.den)
        c == RoundHalfEven(lm.y152 * h, lm.den)
    IN  [ top |-> t, chin |-> c,
          eye_y |-> RoundHalfEven((lm.y33 + lm.y263) * h, 2 * lm.den),
          cx |-> RoundHalfEven((lm.x33 + lm.x263) * w, 2 * lm.den),
          cy |-> RoundHalfEven(t + c, 2) ]

get_head_and_eye_positions(lm, w, h) ==
    LET t == TruncDiv(lm.y10 * h, lm.den)
        c == TruncDiv(lm.y152 * h, lm.den)
    IN  [ top |-> t, chin |-> c,
          eye_y |-> TruncDiv((lm.y33 + lm.y263) * h, 2 * lm.den),
          cx |-> TruncDiv((lm.x33 + lm.x263) * w, 2 * lm.den),
          cy |-> TruncDiv(t + c, 2) ]

\* a faulty variant: the test for None never succeeds
no_landmarks_never(lm) == FALSE

\* `not landmarks`, lines 79 and 219
no_landmarks(lm) == ~ lm.found

-----------------------------------------------------------------------------
(* Rasters: PIL images and numpy arrays.                                   *)

Fill(colour) == [ kind |-> "fill", name |-> colour, ox |-> 0, oy |-> 0 ]
Source(name) == [ kind |-> "src", name |-> name, ox |-> 0, oy |-> 0 ]

\* Image.new(mode, (w, h), colour); np.ones((h, w, 3)) * 255
NewImage(w, h, colour) ==
    [ w |-> w, h |-> h, base |-> Fill(colour), layers |-> << >>, marks |-> << >> ]

\* a raster whose pixels come from elsewhere (a resampling, a decoded file)
NewSource(w, h, name) ==
    [ w |-> w, h |-> h, base |-> Source(name), layers |-> << >>, marks |-> << >> ]

NoImage == NewImage(0, 0, "none")

\* Image.paste(src, (x, y)); arr[:h, :w] = src
Paste(img, src, x, y) ==
    [ img EXCEPT !.layers = Append(@, [ x |-> x, y |-> y, img |-> src ]) ]

\* arr[r0:r1, c0:c1] for 0 <= r0, 0 <= c0: the window, cut at the array's end
Slice(arr, r0, r1, c0, c1) ==
    Paste(NewImage(Max(0, Min(c1, arr.w) - c0), Max(0, Min(r1, arr.h) - r0), "none"),
          arr, -c0, -r0)

\* The pixel of img at (x, y), 0 <= x < img.w, 0 <= y < img.h, before any
\* drawing recorded in img.marks: the last paste that covers it decides.
RECURSIVE Pixel(_, _, _)
Pixel(img, x, y) ==
    LET cover == { i \in 1..Len(img.layers) :
                     /\ x - img.layers[i].x \in 0..(img.layers[i].img.w - 1)
                     /\ y - img.layers[i].y \in 0..(img.layers[i].img.h - 1) }
    IN  IF cover = {}
        THEN IF img.base.kind = "fill"
             THEN [ kind |-> "fill", name |-> img.base.name, x |-> 0, y |-> 0 ]
             ELSE [ kind |-> "src", name |-> img.base.name,
                    x |-> x + img.base.ox, y |-> y + img.base.oy ]
        ELSE LET i == CHOOSE k \in cover : \A j \in cover : j <= k
             IN  Pixel(img.layers[i].img, x - img.layers[i].x, y - img.layers[i].y)

White == [ kind |-> "fill", name |-> "white", x |-> 0, y |-> 0 ]
Black == [ kind |-> "fill", name |-> "black", x |-> 0, y |-> 0 ]
SourcePixel(name, x, y) == [ kind |-> "src", name |-> name, x |-> x, y |-> y ]

\* The x (y) coordinates at which a rectangle of img, at any depth, begins or ends
RECURSIVE EdgesX(_)
EdgesX(img) ==
    {0, img.w} \cup
    UNION { { img.layers[i].x + e : e \in EdgesX(img.layers[i].img) } :
            i \in 1..Len(img.layers) }

RECURSIVE EdgesY(_)
EdgesY(img) ==
    {0, img.h} \cup
    UNION { { img.layers[i].y + e : e \in EdgesY(img.layers[i].img) } :
            i \in 1..Len(img.layers) }

\* The first and last column (row) of every cell of img's grid
ProbesX(img) ==
    { p \in UNION { {e - 1, e} : e \in EdgesX(img) } : 0 <= p /\ p < img.w }
ProbesY(img) ==
    { p \in UNION { {e - 1, e} : e \in EdgesY(img) } : 0 <= p /\ p < img.h }

\* Image.resize((w, h)): a copy when the size is unchanged, else a resampling
resize(img, w, h) ==
    IF img.w = w /\ img.h = h THEN img ELSE NewSource(w, h, "resampled")

\* The heap of PIL image objects: a reference is an index
Alloc(h, img) == [ heap |-> Append(h, img), ref |-> Len(h) + 1 ]

\* a faulty variant: no copy is made, the same object is returned
copy_alias(h, ref) == [ heap |-> h, ref |-> ref ]

\* Image.copy(), line 218
copy(h, ref) == Alloc(h, h[ref])

-----------------------------------------------------------------------------
(* process_photo, lines 66-121, step by step.                              *)

Unset == << 0, 1 >>

target_head_px == mm_to_px(<< target_head_mm, 1 >>)

\* line 101: OUTPUT_SIZE_PX - mm_to_px((EYE_MIN_MM + EYE_MAX_MM) // 2)
desired_eye_y == OUTPUT_SIZE_PX - mm_to_px(<< (EYE_MIN_MM + EYE_MAX_MM) \div 2, 1 >>)

\* int(v * scale) for an integer v and the rational scale, line 93
IntScaled(v, s) == TruncDiv(v * s[1], s[2])

\* int(v * scale - off), lines 103-104
IntScaledMinus(v, s, off) == TruncDiv(v * s[1] - off * s[2], s[2])

\* a faulty variant: the upper bound alone, a negative offset is kept
clamp_upper_only(v, hi) == Min(v, hi)

\* max(0, min(v, hi)), lines 107-108
clamp(v, hi) == Max(0, Min(v, hi))

\* scaled[crop_top:crop_top + 600, crop_left:crop_left + 600], line 110
crop_window(arr, ct, cl) ==
    Slice(arr, ct, ct + OUTPUT_SIZE_PX, cl, cl + OUTPUT_SIZE_PX)

\* a faulty variant: the short window is centred in the white array
pad_centred(c) ==
    IF c.h < OUTPUT_SIZE_PX \/ c.w < OUTPUT_SIZE_PX
    THEN Paste(NewImage(OUTPUT_SIZE_PX, OUTPUT_SIZE_PX, "white"), c,
               (OUTPUT_SIZE_PX - c.w) \div 2, (OUTPUT_SIZE_PX - c.h) \div 2)
    ELSE c

\* lines 113-116: the white array the short window is copied into
pad(c) ==
    IF c.h < OUTPUT_SIZE_PX \/ c.w < OUTPUT_SIZE_PX
    THEN Paste(NewImage(OUTPUT_SIZE_PX, OUTPUT_SIZE_PX, "white"), c, 0, 0)
    ELSE c

\* lines 118-120: a white image with the array pasted at (0, 0)
final_image(c) ==
    Paste(NewImage(OUTPUT_SIZE_PX, OUTPUT_SIZE_PX, "white"), c, 0, 0)

\* process_photo has not run: its locals hold nothing yet
InitFrame ==
    /\ img_w = 0 /\ img_h = 0
    /\ landmarks = NoLandmarks
    /\ top = 0 /\ chin = 0 /\ eye_y = 0 /\ cx = 0 /\ cy = 0
    /\ head_px = 0 /\ head_mm = Unset /\ scale = Unset
    /\ new_w = 0 /\ new_h = 0 /\ scaled = NoImage
    /\ crop_top = 0 /\ crop_left = 0
    /\ cropped = NoImage
    /\ exc = ""

\* the names of the preview, download and sheet sections are not bound yet
InitSessionNames ==
    /\ out_landmarks = NoLandmarks
    /\ preview_img = NULL
    /\ saved = [ fmt |-> "", dpi |-> 0, img |-> NoImage ]
    /\ add_border = FALSE /\ border_thickness = 0
    /\ sheet_image = NULL /\ canvas = NULL /\ pasted = 0
    /\ preview_4x6 = NULL

InitConvNames ==
    /\ px_in = 0 /\ mm_val = Unset /\ px_back = 0

\* The script starts: nothing uploaded yet, processed_img not bound
Init ==
    /\ pc = "start"
    /\ executed = {}
    /\ orig_image = [ w |-> 0, h |-> 0 ]
    /\ InitFrame
    /\ heap = << >>
    /\ processed_img = NULL
    /\ returned_img = NoImage
    /\ error_msg = ""
    /\ ui_error = ""
    /\ InitSessionNames
    /\ InitConvNames

\* lines 196-200: the file is over 10MB
UploadTooLarge ==
    /\ pc = "start"
    /\ ui_error' = FileSizeMsg
    /\ pc' = "done"
    /\ UNCHANGED << executed, orig_image, frameVars, exc, heap, processed_img,
                    error_msg, sessionVars, convVars >>

\* lines 203-206, 249-250: Image.open or verify raises
UploadInvalid ==
    /\ pc = "start"
    /\ ui_error' = InvalidImageMsg
    /\ pc' = "done"
    /\ UNCHANGED << executed, orig_image, frameVars, exc, heap, processed_img,
                    error_msg, sessionVars, convVars >>

\* lines 204-210: the image is decoded and handed to process_photo
UploadValid ==
    /\ pc = "start"
    /\ \E sz \in ImgSizes : orig_image' = [ w |-> sz[1], h |-> sz[2] ]
    /\ executed' = executed \cup {"upload"}
    /\ pc' = "process_photo"
    /\ UNCHANGED << frameVars, exc, heap, processed_img, error_msg, ui_error,
                    sessionVars, convVars >>

\* lines 68-80: composite on white, read the size, ask the oracle
DetectFace ==
    /\ pc = "process_photo"
    /\ img_w' = orig_image.w
    /\ img_h' = orig_image.h
    /\ \E lm \in detect_face_landmarks : landmarks' = lm
    /\ executed' = executed \cup {"detect"}
    /\ IF no_landmarks(landmarks')
       THEN /\ processed_img' = NULL
            /\ error_msg' = NoFaceMsg
            /\ pc' = "returned"
       ELSE /\ UNCHANGED << processed_img, error_msg >>
            /\ pc' = "positions"
    /\ UNCHANGED << orig_image, top, chin, eye_y, cx, cy, head_px, head_mm,
                    scale, new_w, new_h, scaled, crop_top, crop_left, cropped,
                    exc, heap, ui_error, sessionVars, convVars >>

\* line 82
GetPositions ==
    /\ pc = "positions"
    /\ LET g == get_head_and_eye_positions(landmarks, img_w, img_h)
       IN  /\ top' = g.top
           /\ chin' = g.chin
           /\ eye_y' = g.eye_y
           /\ cx' = g.cx
           /\ cy' = g.cy
    /\ executed' = executed \cup {"positions"}
    /\ pc' = "scale"
    /\ UNCHANGED << orig_image, img_w, img_h, landmarks, head_px, head_mm,
                    scale, new_w, new_h, scaled, crop_top, crop_left, cropped,
                    exc, heap, processed_img, error_msg, ui_error,
                    sessionVars, convVars >>

\* lines 84-90; the division raises ZeroDivisionError when head_px = 0
ComputeScale ==
    /\ pc = "scale"
    /\ head_px' = chin - top
    /\ head_mm' = px_to_mm(head_px')
    /\ IF head_px' = 0
       THEN /\ exc' = "ZeroDivisionError"
            /\ executed' = executed \cup {"head_px"}
            /\ pc' = "raised"
            /\ UNCHANGED scale
       ELSE /\ scale' = << target_head_px, head_px' >>
            /\ executed' = executed \cup {"head_px", "scale"}
            /\ pc' = "resize"
            /\ UNCHANGED exc
    /\ UNCHANGED << orig_image, img_w, img_h, landmarks, top, chin, eye_y, cx,
                    cy, new_w, new_h, scaled, crop_top, crop_left, cropped,
                    heap, processed_img, error_msg, ui_error, sessionVars,
                    convVars >>

\* lines 93-94; cv2.resize raises cv2.error unless both sizes are positive
Resize ==
    /\ pc = "resize"
    /\ new_w' = IntScaled(img_w, scale)
    /\ new_h' = IntScaled(img_h, scale)
    /\ IF new_w' <= 0 \/ new_h' <= 0
       THEN /\ exc' = "cv2.error"
            /\ pc' = "raised"
            /\ UNCHANGED << scaled, executed >>
       ELSE /\ scaled' = NewSource(new_w', new_h', "scaled")
            /\ executed' = executed \cup {"resize"}
            /\ pc' = "crop"
            /\ UNCHANGED exc
    /\ UNCHANGED << orig_image, img_w, img_h, landmarks, top, chin, eye_y, cx,
                    cy, head_px, head_mm, scale, crop_top, crop_left, cropped,
                    heap, processed_img, error_msg, ui_error, sessionVars,
                    convVars >>

\* lines 97-104: the offsets that put the eyes and the centre where desired
ComputeCrop ==
    /\ pc = "crop"
    /\ crop_top' = IntScaledMinus(eye_y, scale, desired_eye_y)
    /\ crop_left' = IntScaledMinus(cx, scale, OUTPUT_SIZE_PX \div 2)
    /\ executed' = executed \cup {"crop"}
    /\ pc' = "clamp"
    /\ UNCHANGED << orig_image, img_w, img_h, landmarks, top, chin, eye_y, cx,
                    cy, head_px, head_mm, scale, new_w, new_h, scaled, cropped,
                    exc, heap, processed_img, error_msg, ui_error,
                    sessionVars, convVars >>

\* lines 107-108
ClampCrop ==
    /\ pc = "clamp"
    /\ crop_top' = clamp(crop_top, new_h - OUTPUT_SIZE_PX)
    /\ crop_left' = clamp(crop_left, new_w - OUTPUT_SIZE_PX)
    /\ executed' = executed \cup {"clamp"}
    /\ pc' = "slice"
    /\ UNCHANGED << orig_image, img_w, img_h, landmarks, top, chin, eye_y, cx,
                    cy, head_px, head_mm, scale, new_w, new_h, scaled, cropped,
                    exc, heap, processed_img, error_msg, ui_error,
                    sessionVars, convVars >>

\* lines 110-116
CropAndPad ==
    /\ pc = "slice"
    /\ cropped' = pad(crop_window(scaled, crop_top, crop_left))
    /\ executed' = executed \cup {"slice"}
    /\ pc' = "final"
    /\ UNCHANGED << orig_image, img_w, img_h, landmarks, top, chin, eye_y, cx,
                    cy, head_px, head_mm, scale, new_w, new_h, scaled,
                    crop_top, crop_left, exc, heap, processed_img, error_msg,
                    ui_error, sessionVars, convVars >>

\* lines 118-121 and the assignment of line 210
Finish ==
    /\ pc = "final"
    /\ LET a == Alloc(heap, final_image(cropped))
       IN  /\ heap' = a.heap
           /\ processed_img' = a.ref
           /\ returned_img' = a.heap[a.ref]
    /\ error_msg' = ""
    /\ executed' = executed \cup {"finish"}
    /\ pc' = "returned"
    /\ UNCHANGED << orig_image, frameVars, exc, ui_error, out_landmarks,
                    preview_img, saved, add_border, border_thickness,
                    sheet_image, canvas, pasted, preview_4x6, convVars >>

\* lines 211-214: the error is shown, or the preview section is entered
ShowResult ==
    /\ pc = "returned"
    /\ IF error_msg # ""
       THEN /\ ui_error' = error_msg
            /\ pc' = "done"
       ELSE /\ UNCHANGED ui_error
            /\ pc' = "preview"
    /\ UNCHANGED << executed, orig_image, frameVars, exc, heap, processed_img,
                    error_msg, sessionVars, convVars >>

\* lines 249-250: any exception of process_photo is reported as an invalid
\* image; processed_img was never bound, so no sheet is made (line 289)
HandleException ==
    /\ pc = "raised"
    /\ ui_error' = InvalidImageMsg
    /\ exc' = ""
    /\ pc' = "done"
    /\ UNCHANGED << executed, orig_image, frameVars, heap, processed_img,
                    error_msg, sessionVars, convVars >>

Next ==
    \/ UploadTooLarge
    \/ UploadInvalid
    \/ UploadValid
    \/ DetectFace
    \/ GetPositions
    \/ ComputeScale
    \/ Resize
    \/ ComputeCrop
    \/ ClampCrop
    \/ CropAndPad
    \/ Finish
    \/ ShowResult
    \/ HandleException

Spec == Init /\ [][Next]_vars

-----------------------------------------------------------------------------
(* Properties of process_photo, checked under Spec.                        *)

\* The offsets of lines 103-104, before the clamp of lines 107-108
RawCropTop == IntScaledMinus(eye_y, scale, desired_eye_y)
RawCropLeft == IntScaledMinus(cx, scale, OUTPUT_SIZE_PX \div 2)

\* C1: after the clamp the crop offsets are never negative and the window
\* never runs past the scaled image: 0 <= crop_top <= new_h - 600 when
\* new_h >= 600, crop_top = 0 when new_h < 600; likewise crop_left and new_w.
C1_CropClamped ==
    "clamp" \in executed =>
        /\ new_h >= OUTPUT_SIZE_PX =>
               0 <= crop_top /\ crop_top <= new_h - OUTPUT_SIZE_PX
        /\ new_h < OUTPUT_SIZE_PX => crop_top = 0
        /\ new_w >= OUTPUT_SIZE_PX =>
               0 <= crop_left /\ crop_left <= new_w - OUTPUT_SIZE_PX
        /\ new_w < OUTPUT_SIZE_PX => crop_left = 0

\* C1, witness: the clamp has run on a negative top offset, and on a left
\* offset past the end of an image that is wider than the window
C1_Witness ==
    /\ "clamp" \in executed
    /\ RawCropTop < 0
    /\ new_w >= OUTPUT_SIZE_PX
    /\ RawCropLeft > new_w - OUTPUT_SIZE_PX
    /\ crop_left = new_w - OUTPUT_SIZE_PX

\* C2: when the oracle returns no landmarks, process_photo returns no image
\* and the non-empty NoFaceDetected message, which is what the user is shown;
\* no resize, crop or padding step is executed.
C2_NoFaceNoImage ==
    ("detect" \in executed /\ ~ landmarks.found) =>
        /\ pc \in {"returned", "done"}
        /\ error_msg = NoFaceMsg
        /\ error_msg # ""
        /\ processed_img = NULL
        /\ heap = << >>
        /\ executed \cap {"positions", "head_px", "scale", "resize", "crop",
                          "clamp", "slice", "finish"} = {}
        /\ scaled = NoImage /\ cropped = NoImage
        /\ pc = "done" => ui_error = NoFaceMsg

\* C2, witness: the run has ended on an image in which no face was found
C2_Witness ==
    /\ pc = "done"
    /\ "detect" \in executed
    /\ ~ landmarks.found
    /\ ui_error = NoFaceMsg

\* C3 (the claim as stated): whenever head_px = chin - top <= 0 the run fails
\* with an error of its own kind, neither NoFaceDetected nor InvalidImage,
\* before any scale factor is computed, and no image is produced.
C3_DegenerateGeometry ==
    ("head_px" \in executed /\ head_px <= 0 /\ pc = "done") =>
        /\ ui_error \notin {"", NoFaceMsg, InvalidImageMsg, FileSizeMsg}
        /\ "scale" \notin executed
        /\ processed_img = NULL
        /\ heap = << >>

\* A length of n / d pixels of the output lies within lo .. hi millimetres
\* (600 px = 51 mm), d > 0
InMmRange(n, d, lo, hi) ==
    /\ lo * OUTPUT_SIZE_PX * d <= n * OUTPUT_SIZE_MM
    /\ n * OUTPUT_SIZE_MM <= hi * OUTPUT_SIZE_PX * d

\* chin * scale - top * scale, in pixels of the output
HeadInRange ==
    InMmRange((chin - top) * scale[1], scale[2], HEAD_MIN_MM, HEAD_MAX_MM)

\* 600 - (eye_y * scale - crop_top): the eye line above the bottom edge
EyeInRange ==
    InMmRange(OUTPUT_SIZE_PX * scale[2] - (eye_y * scale[1] - crop_top * scale[2]),
              scale[2], EYE_MIN_MM, EYE_MAX_MM)

\* C4 (the claim as stated): whenever process_photo succeeds, the head height
\* is within 25-35 mm and the eye line 28-34 mm above the bottom edge of the
\* output, also when the crop offset was clamped or the output padded.
C4_RegulatoryRanges ==
    "finish" \in executed => HeadInRange /\ EyeInRange

\* In support of C4: the ranges are met whenever the clamp left the top
\* offset as computed.
C4_RangesWhenUnclamped ==
    ("finish" \in executed /\ crop_top = RawCropTop) => HeadInRange /\ EyeInRange

\* The part of the output taken from the scaled image
RegionW == Min(OUTPUT_SIZE_PX, new_w - crop_left)
RegionH == Min(OUTPUT_SIZE_PX, new_h - crop_top)

\* C5: a successful process_photo returns a 600x600 image; the region cut
\* from the scaled image sits at the top-left corner, from (0, 0), and every
\* pixel outside it is white.
C5_OutputPadded ==
    "finish" \in executed =>
        LET out == heap[processed_img]
            xs == ProbesX(out) \cup
                  { p \in {RegionW - 1, RegionW} : 0 <= p /\ p < out.w }
            ys == ProbesY(out) \cup
                  { p \in {RegionH - 1, RegionH} : 0 <= p /\ p < out.h }
        IN  /\ out.w = OUTPUT_SIZE_PX
            /\ out.h = OUTPUT_SIZE_PX
            /\ out.marks = << >>
            /\ \A x \in xs, y \in ys :
                   Pixel(out, x, y) =
                       IF x < RegionW /\ y < RegionH
                       THEN SourcePixel("scaled", x + crop_left, y + crop_top)
                       ELSE White

\* C5, witness: an image was returned whose region is narrower than 600 and
\* was cut below the top of a scaled image taller than 600
C5_Witness ==
    /\ "finish" \in executed
    /\ pc = "preview"
    /\ RegionW < OUTPUT_SIZE_PX
    /\ new_h > OUTPUT_SIZE_PX
    /\ crop_top > 0

\* C6 (the claim as stated): every value get_head_and_eye_positions returns
\* is the landmark coordinate rounded to the nearest integer.
C6_Rounded ==
    "positions" \in executed =>
        LET d == landmarks.den
        IN  /\ top = RoundHalfEven(landmarks.y10 * img_h, d)
            /\ chin = RoundHalfEven(landmarks.y152 * img_h, d)
            /\ eye_y = RoundHalfEven((landmarks.y33 + landmarks.y263) * img_h, 2 * d)
            /\ cx = RoundHalfEven((landmarks.x33 + landmarks.x263) * img_w, 2 * d)
            /\ cy = RoundHalfEven(top + chin, 2)

\* v is n / d with its fraction dropped, for n >= 0 and d > 0
IsFloorOf(v, n, d) == v * d <= n /\ n < (v + 1) * d

\* C6 (amended): every value get_head_and_eye_positions returns is the
\* landmark coordinate with its fraction dropped (int(), not round()).
C6_Truncated ==
    "positions" \in executed =>
        LET d == landmarks.den
        IN  /\ IsFloorOf(top, landmarks.y10 * img_h, d)
            /\ IsFloorOf(chin, landmarks.y152 * img_h, d)
            /\ IsFloorOf(eye_y, (landmarks.y33 + landmarks.y263) * img_h, 2 * d)
            /\ IsFloorOf(cx, (landmarks.x33 + landmarks.x263) * img_w, 2 * d)
            /\ IsFloorOf(cy, top + chin, 2)

\* C6, witness: positions were computed from a coordinate whose fraction is
\* more than one half, where truncation and rounding differ
C6_Witness ==
    /\ "positions" \in executed
    /\ 2 * (landmarks.y152 * img_h - chin * landmarks.den) > landmarks.den
    /\ 2 * ((landmarks.x33 + landmarks.x263) * img_w - cx * 2 * landmarks.den)
           > 2 * landmarks.den

-----------------------------------------------------------------------------
(* The unit converter on its own: SpecConv.                                *)

\* Any pixel count of the range may be given to the converter
InitConv ==
    /\ pc = "px_to_mm"
    /\ executed = {}
    /\ orig_image = [ w |-> 0, h |-> 0 ]
    /\ InitFrame
    /\ heap = << >>
    /\ processed_img = NULL
    /\ returned_img = NoImage
    /\ error_msg = ""
    /\ ui_error = ""
    /\ InitSessionNames
    /\ px_in \in (-MaxPx)..MaxPx
    /\ mm_val = Unset
    /\ px_back = 0

\* line 57
ConvertToMm ==
    /\ pc = "px_to_mm"
    /\ mm_val' = px_to_mm(px_in)
    /\ pc' = "mm_to_px"
    /\ UNCHANGED << executed, orig_image, frameVars, exc, heap, processed_img,
                    error_msg, ui_error, sessionVars, px_in, px_back >>

\* line 60
ConvertToPx ==
    /\ pc = "mm_to_px"
    /\ px_back' = mm_to_px(mm_val)
    /\ pc' = "converted"
    /\ UNCHANGED << executed, orig_image, frameVars, exc, heap, processed_img,
                    error_msg, ui_error, sessionVars, px_in, mm_val >>

NextConv ==
    \/ ConvertToMm
    \/ ConvertToPx

SpecConv == InitConv /\ [][NextConv]_vars

\* C7: for every pixel count px of the range, mm_to_px(px_to_mm(px)) differs
\* from px by at most 1.
C7_RoundTrip ==
    pc = "converted" => Abs(px_back - px_in) <= 1

\* C7, witness: a pixel count whose length in millimetres is no whole number
\* has been converted there and back
C7_Witness ==
    /\ pc = "converted"
    /\ mm_val[1] % mm_val[2] # 0
    /\ px_in > OUTPUT_SIZE_PX \div 2

-----------------------------------------------------------------------------
(* After a successful process_photo, lines 214-248 and 258-295: SpecSession *)

\* A drawing of ImageDraw on an image: a line from (x0, y0) to (x1, y1), or
\* a text at (x0, y0) showing val tenths of a millimetre
Mark(kind, colour, x0, y0, x1, y1, val) ==
    [ kind |-> kind, colour |-> colour, x0 |-> x0, y0 |-> y0,
      x1 |-> x1, y1 |-> y1, val |-> val ]

\* f"{mm:.1f}": the rational mm in tenths, rounded
Tenths(mm) == RoundHalfEven(10 * mm[1], mm[2])

\* add_measurement_overlay, lines 127-152: draws on the image it is given
add_measurement_overlay(image, lm, h, w) ==
    LET t == TruncDiv(lm.y10 * h, lm.den)
        c == TruncDiv(lm.y152 * h, lm.den)
        left_eye == TruncDiv(lm.y33 * h, lm.den)
        right_eye == TruncDiv(lm.y263 * h, lm.den)
        e == (left_eye + right_eye) \div 2
    IN  [ image EXCEPT !.marks = @ \o
            << Mark("line", "red", w \div 2 - 60, t, w \div 2 + 60, t, 0),
               Mark("line", "red", w \div 2 - 60, c, w \div 2 + 60, c, 0),
               Mark("text", "red", w \div 2 + 65, (t + c) \div 2, 0, 0,
                    Tenths(px_to_mm(c - t))),
               Mark("line", "blue", 0, e, w, e, 0),
               Mark("text", "blue", w - 120, e + 5, 0, 0,
                    Tenths(px_to_mm(h - e))) >> ]

\* The oracle's answers on the 600x600 output (line 217): None, or landmarks
\* in pixels of the output over 600
OutputLandmarks ==
    { NoLandmarks,
      Lm(600, 94, 400, 240, 235, 360, 235),
      Lm(600, 90, 403, 238, 231, 361, 240),
      Lm(600, 0, 600, 0, 599, 600, 600) }

\* The choices of the selectbox, line 293, and the default, line 291
ThicknessChoices == {1, 2, 3, 5, 6, 7, 8, 9, 10}
default_border_thickness == 5

\* The side of one photo on the sheet, line 265
tile_size == 600

\* a faulty variant: the tiles are set 500 pixels apart
positions_too_close ==
    << <<0, 0>>, <<500, 0>>, <<0, 500>>, <<500, 500>>, <<0, 1000>>, <<500, 1000>> >>

\* lines 274-278
positions ==
    << <<0, 0>>, <<600, 0>>, <<0, 600>>, <<600, 600>>, <<0, 1200>>, <<600, 1200>> >>

\* a faulty variant: the border is added to the size once
bordered_size_once(t) == tile_size + t

\* line 269: 600 + 2 * border_thickness
bordered_size(t) == tile_size + 2 * t

\* lines 269-270: the photo on a black square, t pixels from its top-left
bordered_image(img, t) ==
    Paste(NewImage(bordered_size(t), bordered_size(t), "black"), img, t, t)

\* What process_photo returns for a scaled image of nw x nh cut at (cl, ct)
process_output(nw, nh, ct, cl) ==
    final_image(pad(crop_window(NewSource(nw, nh, "scaled"), ct, cl)))

\* The images process_photo returned, as << new_w, new_h, crop_top, crop_left >>:
\* a full window, one padded on the right, one padded right and below
ReturnedCrops == { <<918, 918, 71, 159>>, <<462, 919, 71, 0>>, <<459, 459, 0, 0>> }

\* process_photo has returned an image and no error: line 214
InitSession ==
    /\ pc = "preview"
    /\ executed = {"upload", "detect", "positions", "head_px", "scale",
                   "resize", "crop", "clamp", "slice", "finish"}
    /\ orig_image = [ w |-> 0, h |-> 0 ]
    /\ InitFrame
    /\ \E c \in ReturnedCrops :
           /\ heap = << process_output(c[1], c[2], c[3], c[4]) >>
           /\ returned_img = process_output(c[1], c[2], c[3], c[4])
    /\ processed_img = 1
    /\ error_msg = ""
    /\ ui_error = ""
    /\ InitSessionNames
    /\ InitConvNames

\* lines 215-217: the oracle is asked again, on the output
DetectOnOutput ==
    /\ pc = "preview"
    /\ \E lm \in OutputLandmarks : out_landmarks' = lm
    /\ pc' = "copy"
    /\ UNCHANGED << executed, orig_image, frameVars, exc, heap, processed_img,
                    error_msg, ui_error, returned_img, preview_img, saved,
                    add_border, border_thickness, sheet_image, canvas, pasted,
                    preview_4x6, convVars >>

\* line 218
CopyForPreview ==
    /\ pc = "copy"
    /\ LET c == copy(heap, processed_img)
       IN  /\ heap' = c.heap
           /\ preview_img' = c.ref
    /\ pc' = "overlay"
    /\ UNCHANGED << executed, orig_image, frameVars, exc, processed_img, error_msg,
                    ui_error, returned_img, out_landmarks, saved, add_border,
                    border_thickness, sheet_image, canvas, pasted, preview_4x6,
                    convVars >>

\* lines 219-221, landmarks found: the overlay is drawn on preview_img's
\* object, which add_measurement_overlay returns
DrawOverlay ==
    /\ pc = "overlay"
    /\ ~ no_landmarks(out_landmarks)
    /\ heap' = [ heap EXCEPT ![preview_img] =
                   add_measurement_overlay(@, out_landmarks, heap[processed_img].h,
                                           heap[processed_img].w) ]
    /\ pc' = "warnings"
    /\ UNCHANGED << executed, orig_image, frameVars, exc, processed_img, error_msg,
                    ui_error, sessionVars, convVars >>

\* lines 219-221, no landmarks: the copy is shown as it is
SkipOverlay ==
    /\ pc = "overlay"
    /\ no_landmarks(out_landmarks)
    /\ pc' = "warnings"
    /\ UNCHANGED << executed, orig_image, frameVars, exc, heap, processed_img,
                    error_msg, ui_error, sessionVars, convVars >>

\* lines 223-225: check_warnings reads processed_img; what it reports depends
\* on the colours of the pixels, which the model leaves open
CheckWarnings ==
    /\ pc = "warnings"
    /\ pc' = "save"
    /\ UNCHANGED << executed, orig_image, frameVars, exc, heap, processed_img,
                    error_msg, ui_error, sessionVars, convVars >>

\* lines 235-248: the button was pressed, processed_img is written out
DownloadFinal ==
    /\ pc = "save"
    /\ \E fmt \in {"JPEG", "PNG"} :
           saved' = [ fmt |-> fmt, dpi |-> DPI, img |-> heap[processed_img] ]
    /\ pc' = "sheet"
    /\ UNCHANGED << executed, orig_image, frameVars, exc, heap, processed_img,
                    error_msg, ui_error, returned_img, out_landmarks,
                    preview_img, add_border, border_thickness, sheet_image,
                    canvas, pasted, preview_4x6, convVars >>

\* line 235: the button was not pressed
NoDownload ==
    /\ pc = "save"
    /\ pc' = "sheet"
    /\ UNCHANGED << executed, orig_image, frameVars, exc, heap, processed_img,
                    error_msg, ui_error, sessionVars, convVars >>

\* lines 289-293: the checkbox and the selectbox
ChooseBorder ==
    /\ pc = "sheet"
    /\ processed_img # NULL
    /\ \E b \in BOOLEAN :
           /\ add_border' = b
           /\ \E t \in (IF b THEN ThicknessChoices ELSE {default_border_thickness}) :
                  border_thickness' = t
    /\ pc' = "create"
    /\ UNCHANGED << executed, orig_image, frameVars, exc, heap, processed_img,
                    error_msg, ui_error, returned_img, out_landmarks,
                    preview_img, saved, sheet_image, canvas, pasted,
                    preview_4x6, convVars >>

\* create_4x6_image, lines 259-278: the canvas, the resized photo, the border
StartSheet ==
    /\ pc = "create"
    /\ LET cv == Alloc(heap, NewImage(canvas_width, canvas_height, "white"))
           rs == Alloc(cv.heap, resize(heap[processed_img], tile_size, tile_size))
           bd == Alloc(rs.heap, bordered_image(rs.heap[rs.ref], border_thickness))
       IN  /\ canvas' = cv.ref
           /\ IF add_border
              THEN heap' = bd.heap /\ sheet_image' = bd.ref
              ELSE heap' = rs.heap /\ sheet_image' = rs.ref
    /\ pasted' = 0
    /\ pc' = "paste"
    /\ UNCHANGED << executed, orig_image, frameVars, exc, processed_img, error_msg,
                    ui_error, returned_img, out_landmarks, preview_img, saved,
                    add_border, border_thickness, preview_4x6, convVars >>

\* lines 281-282: one iteration of the loop
PasteTile ==
    /\ pc = "paste"
    /\ pasted < Len(positions)
    /\ LET pos == positions[pasted + 1]
       IN  heap' = [ heap EXCEPT ![canvas] =
                       Paste(@, heap[sheet_image], pos[1], pos[2]) ]
    /\ pasted' = pasted + 1
    /\ UNCHANGED << pc, executed, orig_image, frameVars, exc, processed_img,
                    error_msg, ui_error, returned_img, out_landmarks,
                    preview_img, saved, add_border, border_thickness,
                    sheet_image, canvas, preview_4x6, convVars >>

\* lines 284 and 295
ReturnSheet ==
    /\ pc = "paste"
    /\ pasted = Len(positions)
    /\ preview_4x6' = canvas
    /\ pc' = "sheet_done"
    /\ UNCHANGED << executed, orig_image, frameVars, exc, heap, processed_img,
                    error_msg, ui_error, returned_img, out_landmarks,
                    preview_img, saved, add_border, border_thickness,
                    sheet_image, canvas, pasted, convVars >>

NextSession ==
    \/ DetectOnOutput
    \/ CopyForPreview
    \/ DrawOverlay
    \/ SkipOverlay
    \/ CheckWarnings
    \/ DownloadFinal
    \/ NoDownload
    \/ ChooseBorder
    \/ StartSheet
    \/ PasteTile
    \/ ReturnSheet

SpecSession == InitSession /\ [][NextSession]_vars

-----------------------------------------------------------------------------
(* Properties of the preview and of the sheet, checked under SpecSession.  *)

\* The six offsets at which the sheet shows the photo
SheetOffsets ==
    << <<0, 0>>, <<600, 0>>, <<0, 600>>, <<600, 600>>, <<0, 1200>>, <<600, 1200>> >>

\* The block of cv whose top-left corner is at off shows img, pixel for pixel
BlockShows(cv, off, img) ==
    LET xs == { x \in 0..(img.w - 1) :
                  x \in ProbesX(img) \/ off[1] + x \in ProbesX(cv) }
        ys == { y \in 0..(img.h - 1) :
                  y \in ProbesY(img) \/ off[2] + y \in ProbesY(cv) }
    IN  /\ off[1] + img.w <= cv.w
        /\ off[2] + img.h <= cv.h
        /\ \A x \in xs, y \in ys :
               Pixel(cv, off[1] + x, off[2] + y) = Pixel(img, x, y)

\* C8: without a border create_4x6_image returns a 1200x1800 canvas on which
\* the 600x600 block at each of the six offsets is the input image, pixel
\* for pixel; no tile pasted earlier is overwritten by a later paste.
C8_SixTilesIntact ==
    (pc \in {"paste", "sheet_done"} /\ ~ add_border) =>
        LET cv == heap[canvas]
            input == heap[processed_img]
        IN  /\ input.w = 600 /\ input.h = 600
            /\ cv.w = 1200 /\ cv.h = 1800
            /\ pc = "sheet_done" => pasted = 6 /\ preview_4x6 = canvas
            /\ \A k \in 1..pasted : BlockShows(cv, SheetOffsets[k], input)

\* C8, witness: the sheet of a padded photo is complete, without a border
C8_Witness ==
    /\ pc = "sheet_done"
    /\ ~ add_border
    /\ pasted = 6
    /\ Pixel(heap[processed_img], 599, 599) = White
    /\ Pixel(heap[preview_4x6], 0, 1200).kind = "src"

\* C9: drawing the overlay never changes the calibrated image: from the
\* preview on, processed_img (read by the warnings check, the download and
\* the sheet) has the pixels process_photo returned; the overlay is drawn
\* on a separate copy.
C9_OverlayLeavesProcessed ==
    /\ processed_img # NULL
    /\ heap[processed_img] = returned_img
    /\ preview_img # NULL => preview_img # processed_img
    /\ saved.fmt # "" => saved.img = returned_img
    /\ (sheet_image # NULL /\ ~ add_border) => heap[sheet_image] = returned_img
    /\ (sheet_image # NULL /\ add_border) =>
           heap[sheet_image].layers[1].img = returned_img

\* C9, witness: the overlay was drawn, the image downloaded, the sheet made
C9_Witness ==
    /\ pc = "sheet_done"
    /\ out_landmarks.found
    /\ Len(heap[preview_img].marks) = 5
    /\ saved.fmt = "JPEG"

\* The pairs of tiles pasted side by side, and one below the other
SideBySide ==
    { p \in (1..pasted) \X (1..pasted) :
        /\ SheetOffsets[p[1]][2] = SheetOffsets[p[2]][2]
        /\ SheetOffsets[p[2]][1] = SheetOffsets[p[1]][1] + 600 }
Stacked ==
    { p \in (1..pasted) \X (1..pasted) :
        /\ SheetOffsets[p[1]][1] = SheetOffsets[p[2]][1]
        /\ SheetOffsets[p[2]][2] = SheetOffsets[p[1]][2] + 600 }

\* With a border of t pixels, every tile on the canvas is a black square of
\* 600 + 2t pixels with the photo at (t, t), pasted at the offsets used
\* without a border; neighbouring tiles share a strip `by` pixels wide
BorderedTilesOverlap(by) ==
    LET cv == heap[canvas]
        t == border_thickness
    IN  /\ pasted = 6
        /\ Len(cv.layers) = 6
        /\ \A k \in 1..6 :
               LET tile == cv.layers[k].img
               IN  /\ << cv.layers[k].x, cv.layers[k].y >> = SheetOffsets[k]
                   /\ tile.w = 600 + 2 * t /\ tile.h = 600 + 2 * t
                   /\ tile.base = Fill("black")
                   /\ tile.layers = << [ x |-> t, y |-> t, img |-> heap[processed_img] ] >>
        /\ \A p \in SideBySide :
               cv.layers[p[1]].x + cv.layers[p[1]].img.w - cv.layers[p[2]].x = by
        /\ \A p \in Stacked :
               cv.layers[p[1]].y + cv.layers[p[1]].img.h - cv.layers[p[2]].y = by

\* C10 (the claim as stated): with a border of thickness t, neighbouring
\* tiles overlap by exactly t pixels.
C10_OverlapByThickness ==
    (pc = "sheet_done" /\ add_border) => BorderedTilesOverlap(border_thickness)

\* C10 (amended): with a border of thickness t, neighbouring tiles overlap
\* by exactly 2t pixels: the later tile covers the earlier one's far border
\* and t pixels of its photo.
C10_OverlapByTwiceThickness ==
    (pc = "sheet_done" /\ add_border) =>
        LET cv == heap[canvas]
            t == border_thickness
        IN  /\ BorderedTilesOverlap(2 * t)
            \* the first tile's photo is seen up to column 599 and row 599,
            \* then the border of the tile to its right and of the one below
            /\ Pixel(cv, 599, t) = Pixel(heap[processed_img], 599 - t, 0)
            /\ \A x \in 600..(600 + t - 1) : Pixel(cv, x, t) = Black
            /\ Pixel(cv, 600 + t, t) = Pixel(heap[processed_img], 0, 0)
            /\ Pixel(cv, t, 599) = Pixel(heap[processed_img], 0, 599 - t)
            /\ \A y \in 600..(600 + t - 1) : Pixel(cv, t, y) = Black

\* C10, witness: a sheet with a border of 10 pixels is complete
C10_Witness ==
    /\ pc = "sheet_done"
    /\ add_border
    /\ border_thickness = 10
    /\ pasted = 6

=============================================================================
